---- MODULE Spec2Model ----
(***************************************************************************)
(* Product catalog API: the read-path resolvers (parsePagination,          *)
(* buildProductFilter, parseSort), the controllers of                      *)
(* controllers/productController.js and the in-memory response cache of    *)
(* middleware/cacheMiddleware.js.                                          *)
(*                                                                         *)
(* JavaScript strings are sequences of one-character strings.  JavaScript  *)
(* values that may be a number, NaN, undefined or a string are tagged      *)
(* records, so that NaN and undefined stay distinct from every number.     *)
(***************************************************************************)
EXTENDS Integers, Sequences, FiniteSets, TLC

VARIABLES
    cacheStore,   \* cacheMiddleware.js: const cacheStore = new Map()
    db,           \* the products collection behind the Product model
    now,          \* Date.now(), in milliseconds
    reqs,         \* the requests being handled, one record per connection
    sent,         \* the response sent in the last step, if it sent one
    writes,       \* number of write requests accepted so far
    arrivals,     \* number of requests accepted so far
    hist,         \* history of the reads in flight and of the stored entries
    call,         \* resolver runs: which resolver was applied last
    query,        \* resolver runs: the raw query mapping (req.query)
    out           \* resolver runs: what the resolver returned

vars ==
    <<cacheStore, db, now, reqs, sent, writes, arrivals, hist, call, query, out>>

cacheVars == <<cacheStore, db, now, reqs, sent, writes, arrivals, hist>>
pureVars == <<call, query, out>>

-----------------------------------------------------------------------------
(* JavaScript values *)

Undefined == [t |-> "undefined"]
NaN == [t |-> "NaN"]
Num(n) == [t |-> "number", v |-> n]
Str(s) == [t |-> "string", s |-> s]

EmptyFn == [x \in {} |-> TRUE]

\* req.query.<name>: the string supplied, or undefined when the parameter is absent
Param(q, name) == IF name \in DOMAIN q THEN Str(q[name]) ELSE Undefined

\* truthiness of a query value: undefined and "" are falsy
Truthy(x) == x.t = "string" /\ x.s # <<>>

WhiteSpace == {" "}
Digits == {"0", "1", "2", "3", "4", "5", "6", "7", "8", "9"}

DigitVal(c) ==
    CASE c = "0" -> 0 [] c = "1" -> 1 [] c = "2" -> 2 [] c = "3" -> 3
      [] c = "4" -> 4 [] c = "5" -> 5 [] c = "6" -> 6 [] c = "7" -> 7
      [] c = "8" -> 8 [] c = "9" -> 9

RECURSIVE TrimStart(_)
TrimStart(s) ==
    IF s # <<>> /\ Head(s) \in WhiteSpace THEN TrimStart(Tail(s)) ELSE s

RECURSIVE TrimEnd(_)
TrimEnd(s) ==
    IF s # <<>> /\ s[Len(s)] \in WhiteSpace
    THEN TrimEnd(SubSeq(s, 1, Len(s) - 1))
    ELSE s

\* String.prototype.trim
Trim(s) == TrimEnd(TrimStart(s))

LowerChar(c) ==
    CASE c = "R" -> "r" [] c = "B" -> "b" [] c = "E" -> "e" [] c = "D" -> "d"
      [] c = "L" -> "l" [] c = "U" -> "u" [] OTHER -> c

\* String.prototype.toLowerCase
ToLowerCase(s) == [i \in 1..Len(s) |-> LowerChar(s[i])]

RECURSIVE DigitPrefix(_)
DigitPrefix(s) ==
    IF s # <<>> /\ Head(s) \in Digits
    THEN <<Head(s)>> \o DigitPrefix(Tail(s))
    ELSE <<>>

RECURSIVE DecValue(_)
DecValue(d) ==
    IF d = <<>> THEN 0
    ELSE 10 * DecValue(SubSeq(d, 1, Len(d) - 1)) + DigitVal(d[Len(d)])

Unsigned(s) == IF s # <<>> /\ Head(s) \in {"-", "+"} THEN Tail(s) ELSE s
Negative(s) == s # <<>> /\ Head(s) = "-"

\* Number.parseInt(x, 10): leading white space is skipped, one sign is read,
\* then the longest run of decimal digits; no digit at all gives NaN.
\* undefined is converted to the string "undefined", which has no digit.
ParseInt(x) ==
    IF x.t # "string" THEN NaN
    ELSE LET t == TrimStart(x.s)
             d == DigitPrefix(Unsigned(t))
         IN  IF d = <<>> THEN NaN
             ELSE Num(IF Negative(t) THEN 0 - DecValue(d) ELSE DecValue(d))

\* Number(x) of a string over white space, signs, digits and letters: the
\* string is trimmed on both sides; the empty string is 0; an optionally
\* signed run of digits is its value; anything else is NaN.
ToNumber(x) ==
    LET t == Trim(x.s)
        u == Unsigned(t)
    IN  IF t = <<>> THEN Num(0)
        ELSE IF u # <<>> /\ \A i \in 1..Len(u) : u[i] \in Digits
             THEN Num(IF Negative(t) THEN 0 - DecValue(u) ELSE DecValue(u))
             ELSE NaN

\* Number.isNaN does not coerce: it is false of undefined
IsNaN(x) == x = NaN

-----------------------------------------------------------------------------
(* controllers/productController.js: parsePagination *)

DEFAULT_PAGE == 1
DEFAULT_LIMIT == 20
MAX_LIMIT == 100

\* a limit above MAX_LIMIT clamped to MAX_LIMIT instead of reset to the default
parsePagination_ClampLimit(q) ==
    LET page0 == ParseInt(Param(q, "page"))
        limit0 == ParseInt(Param(q, "limit"))
        page == IF IsNaN(page0) \/ page0.v < 1 THEN DEFAULT_PAGE ELSE page0.v
        limit == IF IsNaN(limit0) \/ limit0.v < 1 THEN DEFAULT_LIMIT
                 ELSE IF limit0.v > MAX_LIMIT THEN MAX_LIMIT ELSE limit0.v
    IN  [page |-> page, limit |-> limit, skip |-> (page - 1) * limit]

parsePagination(q) ==
    LET page0 == ParseInt(Param(q, "page"))
        limit0 == ParseInt(Param(q, "limit"))
        page == IF IsNaN(page0) \/ page0.v < 1 THEN DEFAULT_PAGE ELSE page0.v
        limit == IF IsNaN(limit0) \/ limit0.v < 1 \/ limit0.v > MAX_LIMIT
                 THEN DEFAULT_LIMIT ELSE limit0.v
    IN  [page |-> page, limit |-> limit, skip |-> (page - 1) * limit]

-----------------------------------------------------------------------------
(* controllers/productController.js: buildProductFilter *)

\* String.prototype.split(','): the pieces between the commas
RECURSIVE Split(_)
Split(s) ==
    IF \E i \in 1..Len(s) : s[i] = ","
    THEN LET i == CHOOSE j \in 1..Len(s) :
                      s[j] = "," /\ \A k \in 1..(j - 1) : s[k] # ","
         IN  <<SubSeq(s, 1, i - 1)>> \o Split(SubSeq(s, i + 1, Len(s)))
    ELSE <<s>>

\* Array.prototype.filter(Boolean) over strings: the empty string is dropped
RECURSIVE FilterNonEmpty(_)
FilterNonEmpty(a) ==
    IF a = <<>> THEN <<>>
    ELSE IF Head(a) = <<>> THEN FilterNonEmpty(Tail(a))
         ELSE <<Head(a)>> \o FilterNonEmpty(Tail(a))

\* lines 49-52: split, trim and lower-case each piece, drop the empty ones
TagList(s) ==
    LET parts == Split(s)
    IN  FilterNonEmpty([i \in 1..Len(parts) |-> ToLowerCase(Trim(parts[i]))])

\* lines 34-35
PriceBound(q, name) ==
    IF Param(q, name) # Undefined THEN ToNumber(Param(q, name)) ELSE Undefined

\* lines 37-45: the price predicate, or no entry at all
PricePredicate(minPrice, maxPrice) ==
    IF ~IsNaN(minPrice) \/ ~IsNaN(maxPrice)
    THEN "price" :> ((IF ~IsNaN(minPrice) THEN "$gte" :> minPrice ELSE EmptyFn)
                     @@ (IF ~IsNaN(maxPrice) THEN "$lte" :> maxPrice ELSE EmptyFn))
    ELSE EmptyFn

\* lines 47-56: the tags predicate, or no entry at all
TagsPredicate(q) ==
    IF Truthy(Param(q, "tags")) /\ TagList(q["tags"]) # <<>>
    THEN "tags" :> [in |-> TagList(q["tags"])]
    ELSE EmptyFn

\* the filter with isActive taken from the query when the query names it
buildProductFilter_ActiveFromQuery(q) ==
    ("isActive" :> (Param(q, "isActive") # Str(<<"f", "a", "l", "s", "e">>)))
    @@ (IF Truthy(Param(q, "category"))
        THEN "category" :> ToLowerCase(q["category"]) ELSE EmptyFn)
    @@ PricePredicate(PriceBound(q, "minPrice"), PriceBound(q, "maxPrice"))
    @@ TagsPredicate(q)
    @@ (IF Truthy(Param(q, "search"))
        THEN "$text" :> [search |-> q["search"]] ELSE EmptyFn)

buildProductFilter(q) ==
    ("isActive" :> TRUE)
    @@ (IF Truthy(Param(q, "category"))
        THEN "category" :> ToLowerCase(q["category"]) ELSE EmptyFn)
    @@ PricePredicate(PriceBound(q, "minPrice"), PriceBound(q, "maxPrice"))
    @@ TagsPredicate(q)
    @@ (IF Truthy(Param(q, "search"))
        THEN "$text" :> [search |-> q["search"]] ELSE EmptyFn)

-----------------------------------------------------------------------------
(* controllers/productController.js: parseSort *)

CreatedAt == <<"c", "r", "e", "a", "t", "e", "d", "A", "t">>

\* line 80: the whitelist of sortable fields
allowed ==
    { <<"p", "r", "i", "c", "e">>, CreatedAt,
      <<"r", "a", "t", "i", "n", "g">>, <<"n", "a", "m", "e">> }

\* parseSort without the whitelist check of lines 81-83
parseSort_NoWhitelist(sortParam) ==
    IF ~Truthy(sortParam) THEN CreatedAt :> -1
    ELSE LET field == Trim(sortParam.s)
             direction == IF Negative(field) THEN -1 ELSE 1
             cleanField == IF Negative(field) THEN Tail(field) ELSE field
         IN  cleanField :> direction

\* a sort object has one key, the field, mapped to its direction
parseSort(sortParam) ==
    IF ~Truthy(sortParam) THEN CreatedAt :> -1
    ELSE LET field == Trim(sortParam.s)
             direction == IF Negative(field) THEN -1 ELSE 1
             cleanField == IF Negative(field) THEN Tail(field) ELSE field
         IN  IF cleanField \notin allowed THEN CreatedAt :> -1
             ELSE cleanField :> direction

-----------------------------------------------------------------------------
(* The storage collaborator: the products collection and the Product model *)

Null == [t |-> "null"]

ObjectIds == {"id1", "id2"}

\* the identifiers of the documents of the sample collections
SampleIds == {"id1", "id2", "id3"}

\* mongoose.Types.ObjectId.isValid over the identifiers requests carry
IsValidObjectId(id) == id \in ObjectIds

IdRank(id) == CASE id = "id1" -> 1 [] id = "id2" -> 2 [] OTHER -> 3

\* models/Product.js: isActive defaults to true, timestamps add createdAt
\* (kept as the order of creation)
NewDoc(id, body, order) ==
    [_id |-> id, slug |-> body["slug"], price |-> body["price"],
     isActive |-> TRUE, createdAt |-> order]

\* models/Product.js: slug is unique
SlugTaken(store, slug, except) ==
    \E i \in DOMAIN store : i # except /\ store[i].slug = slug

\* a range bound that reaches the collection as a number restricts the price;
\* one that is not a number is sent as null, which no numeric price matches
BoundHolds(p, op, price) ==
    IF op \notin DOMAIN p THEN TRUE
    ELSE IF p[op].t # "number" THEN FALSE
    ELSE IF op = "$gte" THEN price >= p[op].v ELSE price <= p[op].v

Matches(doc, filter) ==
    /\ doc.isActive = filter["isActive"]
    /\ "price" \in DOMAIN filter =>
          /\ BoundHolds(filter["price"], "$gte", doc.price)
          /\ BoundHolds(filter["price"], "$lte", doc.price)

Matching(store, filter) == {i \in DOMAIN store : Matches(store[i], filter)}

SortField(sort) == CHOOSE f \in DOMAIN sort : TRUE

\* the value a document is ordered by; ties are broken by _id
SortKey(doc, sort) ==
    IF SortField(sort) = CreatedAt THEN doc.createdAt
    ELSE IF SortField(sort) = <<"p", "r", "i", "c", "e">> THEN doc.price
    ELSE 0

Before(d, e, sort) ==
    LET kd == SortKey(d, sort) * sort[SortField(sort)]
        ke == SortKey(e, sort) * sort[SortField(sort)]
    IN  kd < ke \/ (kd = ke /\ IdRank(d._id) < IdRank(e._id))

RECURSIVE Ordered(_, _, _)
Ordered(store, ids, sort) ==
    IF ids = {} THEN <<>>
    ELSE LET first == CHOOSE i \in ids :
                          \A j \in ids \ {i} : Before(store[i], store[j], sort)
         IN  <<store[first]>> \o Ordered(store, ids \ {first}, sort)

\* Product.find(filter, projection).sort(sort).skip(skip).limit(limit)
Find(store, filter, sort, skip, limit) ==
    LET all == Ordered(store, Matching(store, filter), sort)
        last == IF skip + limit < Len(all) THEN skip + limit ELSE Len(all)
    IN  SubSeq(all, skip + 1, last)

\* Product.countDocuments(filter)
CountDocuments(store, filter) == Cardinality(Matching(store, filter))

-----------------------------------------------------------------------------
(* middleware/cacheMiddleware.js *)

TTL_LIST == 30
TTL_DETAIL == 60

buildCacheKey(r) == <<r.method, r.url>>

NoPatch == [on |-> FALSE]

\* the comparison of line 33 turned around
IsFresh_Inverted(cached, time) == cached.expiresAt < time

\* line 33: the entry is served while it has not expired
IsFresh(cached, time) == cached.expiresAt > time

\* the entry with the TTL taken for minutes
CacheEntry_TtlAsMinutes(body, time, ttlSeconds) ==
    [payload |-> body, expiresAt |-> time + ttlSeconds * 60000]

\* the entry with the TTL added as if it were milliseconds
CacheEntry_TtlAsMs(body, time, ttlSeconds) ==
    [payload |-> body, expiresAt |-> time + ttlSeconds]

\* lines 41-44: what the replaced res.json stores
CacheEntry(body, time, ttlSeconds) ==
    [payload |-> body, expiresAt |-> time + ttlSeconds * 1000]

\* the response is sent: res.status(status).json(body).  When res.json has
\* been replaced (lines 40-47) the body is stored first, whatever the status.
ResJson(r, store, status, body, from) ==
    [req |-> [r EXCEPT !.pc = "done", !.status = status, !.resBody = body,
                       !.from = from],
     store |-> IF r.patch.on
               THEN (r.patch.key :> CacheEntry(body, r.patch.now, r.patch.ttl))
                    @@ store
               ELSE store]

\* res.status(204).send(): does not go through res.json
ResSend(r, store, status) ==
    [req |-> [r EXCEPT !.pc = "done", !.status = status, !.resBody = Undefined,
                       !.from = "handler"],
     store |-> store]

\* the middleware with a sliding expiry: a hit stores the entry again
cacheMiddleware_SlidingExpiry(ttlSeconds, r, store, time) ==
    IF r.method # "GET" THEN [req |-> r, store |-> store, next |-> TRUE]
    ELSE LET key == buildCacheKey(r)
         IN  IF key \in DOMAIN store /\ IsFresh(store[key], time)
             THEN [req |-> [r EXCEPT !.pc = "done", !.status = 200,
                                     !.resBody = store[key].payload,
                                     !.from = "cache"],
                   store |-> (key :> CacheEntry(store[key].payload, time,
                                                ttlSeconds)) @@ store,
                   next |-> FALSE]
             ELSE [req |-> [r EXCEPT !.patch = [on |-> TRUE, key |-> key,
                                               now |-> time, ttl |-> ttlSeconds]],
                   store |-> store, next |-> TRUE]

\* the middleware answering a hit on an error body with an error status
cacheMiddleware_ReplayErrorStatus(ttlSeconds, r, store, time) ==
    IF r.method # "GET" THEN [req |-> r, store |-> store, next |-> TRUE]
    ELSE LET key == buildCacheKey(r)
         IN  IF key \in DOMAIN store /\ IsFresh(store[key], time)
             THEN ResJson(r, store,
                          IF "message" \in DOMAIN store[key].payload
                          THEN 400 ELSE 200,
                          store[key].payload, "cache")
                  @@ [next |-> FALSE]
             ELSE [req |-> [r EXCEPT !.patch = [on |-> TRUE, key |-> key,
                                               now |-> time, ttl |-> ttlSeconds]],
                   store |-> store, next |-> TRUE]

\* lines 24-50.  Either the cached payload is sent (next is FALSE), or
\* res.json is replaced and the request goes on to the handler.
cacheMiddleware(ttlSeconds, r, store, time) ==
    IF r.method # "GET" THEN [req |-> r, store |-> store, next |-> TRUE]
    ELSE LET key == buildCacheKey(r)
         IN  IF key \in DOMAIN store /\ IsFresh(store[key], time)
             THEN ResJson(r, store, 200, store[key].payload, "cache")
                  @@ [next |-> FALSE]
             ELSE [req |-> [r EXCEPT !.patch = [on |-> TRUE, key |-> key,
                                               now |-> time, ttl |-> ttlSeconds]],
                   store |-> store, next |-> TRUE]

\* lines 60-62
invalidateCache(store) == EmptyFn

-----------------------------------------------------------------------------
(* app.js: the centralized error handler, lines 30-43 *)

ErrorHandler(r, store) ==
    ResJson(r, store, 500, [message |-> "Internal Server Error"], "handler")

-----------------------------------------------------------------------------
(* Requests *)

MaxWrites == 2
MaxRequests == 3
MaxTicks == 2
TickMs == 30000

\* two connections: every handler suspends at one await, so two requests in
\* flight give every order of one request's steps around another's
Conns == {1, 2}

Idle == [pc |-> "idle"]

NewReq(method, url, id, body) ==
    [pc |-> "run", method |-> method, url |-> url, id |-> id, body |-> body,
     patch |-> NoPatch, handler |-> FALSE, pending |-> {}, calls |-> 0,
     result |-> EmptyFn, err |-> "none",
     status |-> 0, resBody |-> Undefined, from |-> "none"]

\* the list URLs requested, with the query mapping Express parses from each
ListUrls == {"/api/products?minPrice=0&maxPrice=50&limit=1"}

UrlQuery(url) ==
    [minPrice |-> <<"0">>, maxPrice |-> <<"5", "0">>, limit |-> <<"1">>]

\* the identifiers requests carry: a well-formed one and a malformed one
ReqIds == {"id1", "xyz"}

DetailUrl(id) ==
    CASE id = "id1" -> "/api/products/id1"
      [] id = "id2" -> "/api/products/id2"
      [] OTHER -> "/api/products/xyz"

\* issue storage operations and suspend at the await
Await(r, ops) ==
    [r EXCEPT !.pc = "await", !.pending = ops, !.calls = @ + Cardinality(ops)]

-----------------------------------------------------------------------------
(* controllers/productController.js: the handlers, split at their await *)

\* getProducts, lines 98-127
getProducts(r, store) ==
    [req |-> Await([r EXCEPT !.handler = TRUE], {"find", "count"}),
     store |-> store]

\* total / limit rounded down, with 0 replaced by 1
TotalPages_Floor(total, limit) ==
    LET c == total \div limit
    IN  IF c = 0 THEN 1 ELSE c

\* line 129: Math.ceil(total / limit) || 1
TotalPages(total, limit) ==
    LET c == (total + limit - 1) \div limit
    IN  IF c = 0 THEN 1 ELSE c

\* the envelope echoing the page and limit as parsed, before the defaults
ListEnvelope_EchoParsed(q, items, total) ==
    LET p == parsePagination(q)
        page0 == ParseInt(Param(q, "page"))
        limit0 == ParseInt(Param(q, "limit"))
    IN  [data |-> items,
         pagination |-> [page |-> IF IsNaN(page0) THEN p.page ELSE page0.v,
                         limit |-> IF IsNaN(limit0) THEN p.limit ELSE limit0.v,
                         total |-> total,
                         totalPages |-> TotalPages(total, p.limit)]]

\* lines 100 and 129-139: the body passed to res.json
ListEnvelope(q, items, total) ==
    LET p == parsePagination(q)
    IN  [data |-> items,
         pagination |-> [page |-> p.page, limit |-> p.limit, total |-> total,
                         totalPages |-> TotalPages(total, p.limit)]]

\* getProducts, lines 119-142
getProductsResume(r, store) ==
    IF r.err # "none" THEN ErrorHandler(r, store)
    ELSE ResJson(r, store, 200,
                 ListEnvelope(UrlQuery(r.url), r.result["find"],
                              r.result["count"]),
                 "handler")

\* getProducts, lines 100-139, run against one state of the collection: the
\* page fetch and the count of lines 119-127, then the envelope
getProductsRun(q, store) ==
    LET p == parsePagination(q)
        filter == buildProductFilter(q)
        sort == parseSort(Param(q, "sort"))
    IN  ListEnvelope(q, Find(store, filter, sort, p.skip, p.limit),
                     CountDocuments(store, filter))

\* getProductById, lines 150-158
getProductById(r, store) ==
    LET h == [r EXCEPT !.handler = TRUE]
    IN  IF ~IsValidObjectId(h.id)
        THEN ResJson(h, store, 400, [message |-> "Invalid product id"], "handler")
        ELSE [req |-> Await(h, {"findById"}), store |-> store]

\* getProductById, lines 158-167
getProductByIdResume(r, store) ==
    IF r.err # "none" THEN ErrorHandler(r, store)
    ELSE IF r.result["findById"] = Null
    THEN ResJson(r, store, 404, [message |-> "Product not found"], "handler")
    ELSE ResJson(r, store, 200, r.result["findById"], "handler")

RequiredFields == {"name", "slug", "price", "category"}

\* createProduct, lines 175-209
createProduct(r, store) ==
    LET h == [r EXCEPT !.handler = TRUE]
    IN  IF ~(RequiredFields \subseteq DOMAIN h.body)
        THEN ResJson(h, store, 400,
                     [message |-> "name, slug, price and category are required"],
                     "handler")
        ELSE [req |-> Await(h, {"create"}), store |-> store]

\* createProduct with invalidateCache() also called in the catch of a duplicate
createProductResume_InvalidateOnConflict(r, store) ==
    IF r.err = "E11000"
    THEN ResJson(r, invalidateCache(store), 409,
                 [message |-> "Slug must be unique"], "handler")
    ELSE IF r.err # "none" THEN ErrorHandler(r, store)
    ELSE ResJson(r, invalidateCache(store), 201, r.result["create"], "handler")

\* createProduct, lines 209-221
createProductResume(r, store) ==
    IF r.err = "E11000"
    THEN ResJson(r, store, 409, [message |-> "Slug must be unique"], "handler")
    ELSE IF r.err # "none" THEN ErrorHandler(r, store)
    ELSE ResJson(r, invalidateCache(store), 201, r.result["create"], "handler")

\* updateProduct, lines 228-243
updateProduct(r, store) ==
    LET h == [r EXCEPT !.handler = TRUE]
    IN  IF ~IsValidObjectId(h.id)
        THEN ResJson(h, store, 400, [message |-> "Invalid product id"], "handler")
        ELSE [req |-> Await(h, {"findByIdAndUpdate"}), store |-> store]

\* updateProduct without the invalidateCache() of line 249
updateProductResume_NoInvalidate(r, store) ==
    IF r.err = "E11000"
    THEN ResJson(r, store, 409, [message |-> "Slug must be unique"], "handler")
    ELSE IF r.err # "none" THEN ErrorHandler(r, store)
    ELSE IF r.result["findByIdAndUpdate"] = Null
    THEN ResJson(r, store, 404, [message |-> "Product not found"], "handler")
    ELSE ResJson(r, store, 200, r.result["findByIdAndUpdate"], "handler")

\* updateProduct, lines 238-257
updateProductResume(r, store) ==
    IF r.err = "E11000"
    THEN ResJson(r, store, 409, [message |-> "Slug must be unique"], "handler")
    ELSE IF r.err # "none" THEN ErrorHandler(r, store)
    ELSE IF r.result["findByIdAndUpdate"] = Null
    THEN ResJson(r, store, 404, [message |-> "Product not found"], "handler")
    ELSE ResJson(r, invalidateCache(store), 200,
                 r.result["findByIdAndUpdate"], "handler")

\* deleteProduct, lines 264-272
deleteProduct(r, store) ==
    LET h == [r EXCEPT !.handler = TRUE]
    IN  IF ~IsValidObjectId(h.id)
        THEN ResJson(h, store, 400, [message |-> "Invalid product id"], "handler")
        ELSE [req |-> Await(h, {"findByIdAndDelete"}), store |-> store]

\* deleteProduct without the invalidateCache() of line 278
deleteProductResume_NoInvalidate(r, store) ==
    IF r.err # "none" THEN ErrorHandler(r, store)
    ELSE IF r.result["findByIdAndDelete"] = Null
    THEN ResJson(r, store, 404, [message |-> "Product not found"], "handler")
    ELSE ResSend(r, store, 204)

\* deleteProduct, lines 272-283
deleteProductResume(r, store) ==
    IF r.err # "none" THEN ErrorHandler(r, store)
    ELSE IF r.result["findByIdAndDelete"] = Null
    THEN ResJson(r, store, 404, [message |-> "Product not found"], "handler")
    ELSE ResSend(r, invalidateCache(store), 204)

-----------------------------------------------------------------------------
(* The storage engine executes one operation of a suspended request *)

FreeId(store) ==
    CHOOSE i \in ObjectIds \ DOMAIN store :
        \A j \in ObjectIds \ DOMAIN store : IdRank(i) <= IdRank(j)

Remove(store, id) == [i \in DOMAIN store \ {id} |-> store[i]]

\* what the operation returns, the error it raises, and the collection after it
Exec(op, r, store, order) ==
    LET q == UrlQuery(r.url)
        p == parsePagination(q)
        filter == buildProductFilter(q)
        ok(v) == [result |-> v, err |-> "none", db |-> store]
    IN  CASE op = "find" ->
               ok(Find(store, filter, parseSort(Param(q, "sort")), p.skip, p.limit))
          [] op = "count" -> ok(CountDocuments(store, filter))
          [] op = "findById" ->
               ok(IF r.id \in DOMAIN store THEN store[r.id] ELSE Null)
          [] op = "create" ->
               IF SlugTaken(store, r.body["slug"], "none")
               THEN [result |-> Null, err |-> "E11000", db |-> store]
               ELSE LET doc == NewDoc(FreeId(store), r.body, order)
                    IN  [result |-> doc, err |-> "none",
                         db |-> (doc._id :> doc) @@ store]
          [] op = "findByIdAndUpdate" ->
               IF r.id \notin DOMAIN store THEN ok(Null)
               ELSE IF "slug" \in DOMAIN r.body
                       /\ SlugTaken(store, r.body["slug"], r.id)
               THEN [result |-> Null, err |-> "E11000", db |-> store]
               ELSE LET doc == r.body @@ store[r.id]
                    IN  [result |-> doc, err |-> "none",
                         db |-> (r.id :> doc) @@ store]
          [] op = "findByIdAndDelete" ->
               IF r.id \notin DOMAIN store THEN ok(Null)
               ELSE [result |-> store[r.id], err |-> "none",
                     db |-> Remove(store, r.id)]

-----------------------------------------------------------------------------
(* Request bodies *)

CreateBody(slug) ==
    [name |-> "n", slug |-> slug, price |-> 10, category |-> "c"]

CreateBodies == {CreateBody("a"), CreateBody("b"), [name |-> "n"]}

UpdateBodies == {[slug |-> "b"]}

-----------------------------------------------------------------------------
(* Actions of the server *)

\* the write r has been answered with success: lines 212-214, 249-251 and
\* 278-280, where invalidateCache() is called
Acknowledged(r) ==
    r.pc = "done" /\ r.method \in {"POST", "PUT", "DELETE"}
                  /\ r.status \in {200, 201, 204}

\* History.  It is recorded when hist.on holds and has no effect on the
\* server.  For the read of each connection (a GET that missed) and for each
\* stored entry it keeps the origin of the payload: readAt, the time the
\* collection was first read for it (-1: not read); behind, the connections
\* of the writes in flight that changed the collection after that read;
\* stale, whether such a write has since been answered with success.
NoOrigin == [readAt |-> -1, behind |-> {}, stale |-> FALSE]

NoHistory ==
    [on |-> FALSE, reads |-> [s \in Conns |-> NoOrigin], entries |-> EmptyFn]

\* the origin e once the request of connection s has been answered with r
Settle(e, s, r) ==
    [e EXCEPT !.stale = @ \/ (s \in e.behind /\ Acknowledged(r)),
              !.behind = @ \ {s}]

\* the history after the request of connection s has been answered as in h:
\* the entry it stored, if any, has the origin of its read
Answered(s, h) ==
    [on |-> TRUE,
     reads |-> [t \in Conns |->
                   IF t = s THEN NoOrigin ELSE Settle(hist.reads[t], s, h.req)],
     entries |-> [k \in DOMAIN h.store |->
                     IF h.req.patch.on /\ k = h.req.patch.key
                     THEN hist.reads[s]
                     ELSE Settle(hist.entries[k], s, h.req)]]

\* the history after a storage operation of connection s: the first read of
\* a GET that missed is timed, and a change of the collection leaves behind
\* it the entries and the reads made before
Executed(s, changed) ==
    LET Mark(e) == IF changed /\ e.readAt # -1
                   THEN [e EXCEPT !.behind = @ \cup {s}] ELSE e
    IN  [on |-> TRUE,
         reads |-> [t \in Conns |->
                       IF t = s
                       THEN IF reqs[s].patch.on /\ hist.reads[s].readAt = -1
                            THEN [hist.reads[s] EXCEPT !.readAt = now]
                            ELSE hist.reads[s]
                       ELSE Mark(hist.reads[t])],
         entries |-> [k \in DOMAIN hist.entries |-> Mark(hist.entries[k])]]

\* a new request takes the first free connection
Free(s) ==
    /\ arrivals < MaxRequests
    /\ reqs[s] = Idle
    /\ \A t \in 1..(s - 1) : reqs[t] # Idle

\* the handling of the request of connection s went as far as h: the request
\* is suspended at its await, or its response is sent and the connection is
\* free again
Handled(s, h) ==
    /\ reqs' = [reqs EXCEPT ![s] = IF h.req.pc = "done" THEN Idle ELSE h.req]
    /\ sent' = IF h.req.pc = "done" THEN h.req ELSE Idle
    /\ cacheStore' = h.store
    /\ hist' = IF hist.on /\ h.req.pc = "done" THEN Answered(s, h) ELSE hist

\* routes/productRoutes.js line 14: router.get('/', cacheMiddleware(30), getProducts)
GetProductsRequest(s, url) ==
    /\ Free(s)
    /\ LET c == cacheMiddleware(TTL_LIST, NewReq("GET", url, "-", EmptyFn),
                                cacheStore, now)
       IN  Handled(s, IF c.next THEN getProducts(c.req, c.store) ELSE c)
    /\ arrivals' = arrivals + 1
    /\ UNCHANGED <<db, now, writes, pureVars>>

\* line 17: router.get('/:id', cacheMiddleware(60), getProductById)
GetProductByIdRequest(s, id) ==
    /\ Free(s)
    /\ LET c == cacheMiddleware(TTL_DETAIL,
                                NewReq("GET", DetailUrl(id), id, EmptyFn),
                                cacheStore, now)
       IN  Handled(s, IF c.next THEN getProductById(c.req, c.store) ELSE c)
    /\ arrivals' = arrivals + 1
    /\ UNCHANGED <<db, now, writes, pureVars>>

\* line 20: router.post('/', createProduct)
CreateProductRequest(s, body) ==
    /\ Free(s)
    /\ writes < MaxWrites
    /\ Handled(s, createProduct(NewReq("POST", "/api/products", "-", body),
                                cacheStore))
    /\ writes' = writes + 1
    /\ arrivals' = arrivals + 1
    /\ UNCHANGED <<db, now, pureVars>>

\* line 21: router.put('/:id', updateProduct)
UpdateProductRequest(s, id, body) ==
    /\ Free(s)
    /\ writes < MaxWrites
    /\ Handled(s, updateProduct(NewReq("PUT", DetailUrl(id), id, body),
                                cacheStore))
    /\ writes' = writes + 1
    /\ arrivals' = arrivals + 1
    /\ UNCHANGED <<db, now, pureVars>>

\* line 22: router.delete('/:id', deleteProduct)
DeleteProductRequest(s, id) ==
    /\ Free(s)
    /\ writes < MaxWrites
    /\ Handled(s, deleteProduct(NewReq("DELETE", DetailUrl(id), id, EmptyFn),
                                cacheStore))
    /\ writes' = writes + 1
    /\ arrivals' = arrivals + 1
    /\ UNCHANGED <<db, now, pureVars>>

\* the storage engine runs one pending operation of request s
StorageExec(s, op) ==
    /\ reqs[s].pc = "await"
    /\ reqs[s].err = "none"
    /\ op \in reqs[s].pending
    /\ LET o == Exec(op, reqs[s], db, writes)
       IN  /\ db' = o.db
           /\ reqs' = [reqs EXCEPT ![s].pending = @ \ {op},
                                   ![s].result = (op :> o.result) @@ @,
                                   ![s].err = o.err]
           /\ hist' = IF hist.on THEN Executed(s, o.db # db) ELSE hist
    /\ sent' = Idle
    /\ UNCHANGED <<cacheStore, now, writes, arrivals, pureVars>>

\* the awaited promise of request s has settled
Settled(s) ==
    /\ reqs[s].pc = "await"
    /\ reqs[s].pending = {} \/ reqs[s].err # "none"

GetProductsResume(s) ==
    /\ Settled(s)
    /\ reqs[s].method = "GET" /\ reqs[s].url \in ListUrls
    /\ Handled(s, getProductsResume(reqs[s], cacheStore))
    /\ UNCHANGED <<db, now, writes, arrivals, pureVars>>

GetProductByIdResume(s) ==
    /\ Settled(s)
    /\ reqs[s].method = "GET" /\ reqs[s].url \notin ListUrls
    /\ Handled(s, getProductByIdResume(reqs[s], cacheStore))
    /\ UNCHANGED <<db, now, writes, arrivals, pureVars>>

CreateProductResume(s) ==
    /\ Settled(s)
    /\ reqs[s].method = "POST"
    /\ Handled(s, createProductResume(reqs[s], cacheStore))
    /\ UNCHANGED <<db, now, writes, arrivals, pureVars>>

UpdateProductResume(s) ==
    /\ Settled(s)
    /\ reqs[s].method = "PUT"
    /\ Handled(s, updateProductResume(reqs[s], cacheStore))
    /\ UNCHANGED <<db, now, writes, arrivals, pureVars>>

DeleteProductResume(s) ==
    /\ Settled(s)
    /\ reqs[s].method = "DELETE"
    /\ Handled(s, deleteProductResume(reqs[s], cacheStore))
    /\ UNCHANGED <<db, now, writes, arrivals, pureVars>>

\* the code after the await of the handler r is suspended in
Continue(r, store) ==
    CASE r.method = "GET" /\ r.url \in ListUrls -> getProductsResume(r, store)
      [] r.method = "GET" /\ r.url \notin ListUrls -> getProductByIdResume(r, store)
      [] r.method = "POST" -> createProductResume(r, store)
      [] r.method = "PUT" -> updateProductResume(r, store)
      [] r.method = "DELETE" -> deleteProductResume(r, store)

\* the awaited promise of request s is rejected with an error that is no
\* duplicate-key error (connection loss, validation error, time-out): the
\* catch block of the handler runs.  The operations the storage engine has
\* already executed stay executed.
StorageFault(s) ==
    /\ reqs[s].pc = "await"
    /\ reqs[s].err = "none"
    /\ Handled(s, Continue([reqs[s] EXCEPT !.err = "fault"], cacheStore))
    /\ UNCHANGED <<db, now, writes, arrivals, pureVars>>

\* time passes.  Date.now() is read only by cacheMiddleware, which compares it
\* with the expiresAt of a stored entry and keeps it in the res.json it
\* replaces; while there is neither an entry nor a replaced res.json in
\* flight the clock is not observed, so its steps are taken only otherwise.
Tick ==
    /\ now < MaxTicks * TickMs
    /\ cacheStore # EmptyFn \/ \E s \in Conns : reqs[s] # Idle /\ reqs[s].patch.on
    /\ now' = now + TickMs
    /\ sent' = Idle
    /\ UNCHANGED <<cacheStore, db, reqs, writes, arrivals, hist, pureVars>>

\* the collection the server starts with: one product
Seed == "id1" :> NewDoc("id1", CreateBody("a"), 0)

\* the server after start-up: nothing cached, nothing in flight
InitServer ==
    /\ cacheStore = EmptyFn
    /\ db = Seed
    /\ now = 0
    /\ reqs = [s \in Conns |-> Idle]
    /\ sent = Idle
    /\ writes = 0
    /\ arrivals = 0

InitCache == InitServer /\ hist = NoHistory

InitPure ==
    /\ call = "none"
    /\ query = EmptyFn
    /\ out = EmptyFn

Init == InitCache /\ InitPure

Next ==
    \/ \E s \in Conns, url \in ListUrls : GetProductsRequest(s, url)
    \/ \E s \in Conns, id \in ReqIds : GetProductByIdRequest(s, id)
    \/ \E s \in Conns, body \in CreateBodies : CreateProductRequest(s, body)
    \/ \E s \in Conns, id \in ReqIds, body \in UpdateBodies :
           UpdateProductRequest(s, id, body)
    \/ \E s \in Conns, id \in ReqIds : DeleteProductRequest(s, id)
    \/ \E s \in Conns, op \in {"find", "count", "findById", "create",
                               "findByIdAndUpdate", "findByIdAndDelete"} :
           StorageExec(s, op)
    \/ \E s \in Conns :
           \/ GetProductsResume(s)
           \/ GetProductByIdResume(s)
           \/ CreateProductResume(s)
           \/ UpdateProductResume(s)
           \/ DeleteProductResume(s)
           \/ StorageFault(s)
    \/ Tick

Spec == Init /\ [][Next]_vars

\* the same server with the history recorded
InitHistory == InitServer /\ hist = [NoHistory EXCEPT !.on = TRUE] /\ InitPure

SpecHistory == InitHistory /\ [][Next]_vars

-----------------------------------------------------------------------------
(* Properties of the response cache and the write handlers *)

WriteMethods == {"POST", "PUT", "DELETE"}
SuccessStatus == {200, 201, 204}

\* the request accepted on connection s in this step: suspended at its await,
\* or already answered
Arrived(s) == IF reqs'[s] # Idle THEN reqs'[s] ELSE sent'

\* this step accepts a request on connection s
Arrives(s) == Free(s) /\ arrivals' = arrivals + 1

\* a GET that missed is still running: its replaced res.json may yet store
ReadInFlight == \E s \in Conns : reqs[s] # Idle /\ reqs[s].patch.on

\* the handler of r answered, or suspended, after issuing storage operations
ReachedStorage(r) == r.calls > 0

\* C1: a GET whose key has a stored entry with now < expiresAt is answered
\* at once with that entry's payload; the wrapped handler is not invoked and
\* no storage operation is issued or executed.
C1_LiveEntryIsServed ==
    [][\A s \in Conns :
          Arrives(s) =>
              LET r == Arrived(s)
                  key == <<r.method, r.url>>
              IN  (r.method = "GET" /\ key \in DOMAIN cacheStore
                      /\ now < cacheStore[key].expiresAt)
                  => /\ r.pc = "done"
                     /\ r.from = "cache"
                     /\ r.resBody = cacheStore[key].payload
                     /\ ~r.handler
                     /\ ~ReachedStorage(r)
                     /\ r.pending = {}
                     /\ db' = db]_vars

\* a list response computed from storage has been served again from the cache
C1_Witness ==
    /\ sent # Idle
    /\ sent.from = "cache"
    /\ sent.url \in ListUrls
    /\ "data" \in DOMAIN sent.resBody
    /\ buildCacheKey(sent) \in DOMAIN cacheStore
    /\ now < cacheStore[buildCacheKey(sent)].expiresAt

\* C2: a GET whose key has an entry with now >= expiresAt is not served from
\* the cache: it invokes the wrapped handler, which computes the response
\* afresh from storage.
C2_ExpiredEntryIsRecomputed ==
    [][\A s \in Conns :
          Arrives(s) =>
              LET r == Arrived(s)
                  key == <<r.method, r.url>>
              IN  (r.method = "GET" /\ key \in DOMAIN cacheStore
                      /\ now >= cacheStore[key].expiresAt)
                  => /\ r.from # "cache"
                     /\ r.handler
                     /\ ReachedStorage(r)]_vars

\* C3 (as claimed): in the state right after a successful write the store is
\* empty and, with no read in flight, the next GET, for any key, is a miss
\* that reaches storage.
C3_NextGetReachesStorage ==
    [][\A s \in Conns :
          (/\ sent # Idle
           /\ sent.method \in WriteMethods
           /\ sent.status \in SuccessStatus
           /\ ~ReadInFlight
           /\ Arrives(s)
           /\ Arrived(s).method = "GET")
          => /\ cacheStore = EmptyFn
             /\ Arrived(s).from # "cache"
             /\ ReachedStorage(Arrived(s))]_vars

\* C3 (amended): every write answered 200, 201 or 204 leaves the store empty;
\* an empty store stays empty until a GET is accepted or a read in flight
\* completes; and a GET accepted while the store is empty and no read is in
\* flight is a miss that invokes the wrapped handler, which reaches storage
\* unless it rejects a malformed identifier with 400.
C3_SuccessfulWriteInvalidates ==
    [][/\ (sent' # Idle /\ sent'.method \in WriteMethods
              /\ sent'.status \in SuccessStatus)
          => cacheStore' = EmptyFn
       /\ (cacheStore = EmptyFn /\ ~ReadInFlight /\ arrivals' = arrivals)
          => cacheStore' = EmptyFn
       /\ \A s \in Conns :
             (/\ cacheStore = EmptyFn
              /\ ~ReadInFlight
              /\ Arrives(s)
              /\ Arrived(s).method = "GET")
             => LET r == Arrived(s)
                IN  /\ r.from # "cache"
                    /\ r.handler
                    /\ \/ ReachedStorage(r) /\ r.pc = "await"
                       \/ /\ ~IsValidObjectId(r.id)
                          /\ r.url \notin ListUrls
                          /\ r.status = 400
                          /\ ~ReachedStorage(r)]_vars

\* a write succeeded while entries were cached, and cleared them
C3_Witness ==
    /\ sent # Idle
    /\ sent.method \in WriteMethods
    /\ sent.status \in SuccessStatus
    /\ cacheStore = EmptyFn
    /\ arrivals >= 2
    /\ ~ReadInFlight

\* C4: a write that is not answered 200, 201 or 204 clears no cache entry:
\* the store changes only when a GET stores its response or a write
\* succeeds; and a create or update rejected as a duplicate persists nothing.
C4_FailedWriteKeepsCache ==
    [][/\ cacheStore' # cacheStore
          => /\ sent' # Idle
             /\ sent'.method = "GET" \/ sent'.status \in SuccessStatus
       /\ (sent' # Idle /\ sent'.method \in WriteMethods
              /\ sent'.status \in {400, 404, 409})
          => cacheStore' = cacheStore
       /\ \A s \in Conns :
             (reqs[s] # Idle /\ reqs'[s] # Idle
                 /\ reqs[s].err = "none" /\ reqs'[s].err = "E11000")
             => db' = db]_vars

\* a create was rejected as a duplicate while entries were cached
C4_Witness ==
    /\ sent # Idle
    /\ sent.method = "POST"
    /\ sent.status = 409
    /\ cacheStore # EmptyFn

\* C5: a detail GET with a malformed identifier is answered 400 without any
\* storage access.
C5_MalformedIdIs400 ==
    (sent # Idle /\ sent.method = "GET" /\ sent.url \notin ListUrls
        /\ ~IsValidObjectId(sent.id))
    => sent.status = 400 /\ ~ReachedStorage(sent)

\* C6: an entry is created or overwritten only by a response with status 200.
C6_OnlySuccessIsCached ==
    [][\A key \in DOMAIN cacheStore' :
          (key \notin DOMAIN cacheStore \/ cacheStore'[key] # cacheStore[key])
          => sent' # Idle /\ sent'.status = 200]_vars

\* the TTL of the route of a URL, in milliseconds: 30 s for the list route,
\* 60 s for the detail route
RouteTtlMs(url) == IF url \in ListUrls THEN 30000 ELSE 60000

\* this step creates or overwrites the entry of the key
Populated(key) ==
    /\ key \in DOMAIN cacheStore'
    /\ key \notin DOMAIN cacheStore \/ cacheStore'[key] # cacheStore[key]

\* C17: a request found to be a miss keeps the time of that finding; the
\* entry it stores expires at that time plus the TTL of its route, however
\* much later it is stored; and an entry is served only before its expiresAt,
\* so one stored at or after its expiresAt is never served.
C17_ExpiryCountsFromMiss ==
    [][/\ \A s \in Conns :
             /\ (Arrives(s) /\ Arrived(s).patch.on)
                => Arrived(s).patch.now = now
             /\ (reqs[s] # Idle /\ reqs'[s] # reqs[s])
                => (IF reqs'[s] = Idle THEN sent' ELSE reqs'[s]).patch
                       = reqs[s].patch
             /\ (Arrives(s) /\ Arrived(s).from = "cache")
                => now < cacheStore[buildCacheKey(Arrived(s))].expiresAt
       /\ \A key \in DOMAIN cacheStore' :
             Populated(key)
             => /\ sent' # Idle
                /\ sent'.patch.on
                /\ key = buildCacheKey(sent')
                /\ sent'.patch.now <= now
                /\ cacheStore'[key].expiresAt
                       = sent'.patch.now + RouteTtlMs(sent'.url)]_vars

\* a list entry was stored a full TTL after the miss: it has expired already
C17_Witness ==
    /\ sent # Idle
    /\ sent.from = "handler"
    /\ sent.url \in ListUrls
    /\ sent.status = 200
    /\ buildCacheKey(sent) \in DOMAIN cacheStore
    /\ cacheStore[buildCacheKey(sent)].expiresAt <= now
    /\ sent.patch.now + RouteTtlMs(sent.url) <= now

\* C18: a cache hit leaves the store as it was, payload and expiresAt of the
\* served entry included, and happens only before the entry's expiresAt.
C18_HitLeavesStoreUnchanged ==
    [][\A s \in Conns :
          (Arrives(s) /\ Arrived(s).from = "cache")
          => /\ cacheStore' = cacheStore
             /\ buildCacheKey(Arrived(s)) \in DOMAIN cacheStore
             /\ now < cacheStore[buildCacheKey(Arrived(s))].expiresAt]_vars

\* a detail entry populated at time 0 is served later with its expiry as set
C18_Witness ==
    /\ sent # Idle
    /\ sent.from = "cache"
    /\ sent.url \notin ListUrls
    /\ now > 0
    /\ buildCacheKey(sent) \in DOMAIN cacheStore
    /\ cacheStore[buildCacheKey(sent)].expiresAt = RouteTtlMs(sent.url)

\* C19: every response served from the cache has status 200, whatever the
\* status of the response that populated the entry.
C19_HitIsAlways200 ==
    (sent # Idle /\ sent.from = "cache") => sent.status = 200

\* the body of a 400 response is served from the cache with status 200
C19_Witness ==
    /\ sent # Idle
    /\ sent.from = "cache"
    /\ sent.resBody = [message |-> "Invalid product id"]
    /\ sent.status = 200

\* the origin of the entry a response was served from
ServedOrigin == hist.entries[buildCacheKey(sent)]

\* C15: a payload served from the cache at time t comes from a handler run
\* that started later than t - ttl, and whose first read of the collection,
\* if it read it, happened later than t - ttl, ttl being that of the route;
\* this under every interleaving of reads, writes and clock steps.
C15_StalenessBoundedByTtl ==
    (sent # Idle /\ sent.from = "cache")
    => /\ sent.resBody = cacheStore[buildCacheKey(sent)].payload
       /\ cacheStore[buildCacheKey(sent)].expiresAt - RouteTtlMs(sent.url)
              > now - RouteTtlMs(sent.url)
       /\ ServedOrigin.readAt # -1
          => ServedOrigin.readAt > now - RouteTtlMs(sent.url)

\* a payload read some time after the miss, and overtaken by a write that was
\* answered before the payload was stored, is served within the TTL
C15_Witness ==
    /\ sent # Idle
    /\ sent.from = "cache"
    /\ ServedOrigin.readAt > 0
    /\ ServedOrigin.stale
    /\ now >= ServedOrigin.readAt

\* the response of this step stores the entry of the key
StoredNow(key) == sent' # Idle /\ sent'.patch.on /\ sent'.patch.key = key

\* C16: a read becomes stale only in flight: it has read the collection, a
\* write has changed the collection since, and that write is answered with
\* success, clearing the store, while the read is still suspended.  An entry
\* is stale only from the step that stores it, as the payload of such a
\* read: no entry turns stale while it is in the store.
C16_StaleOnlyAcrossInvalidation ==
    [][/\ \A s \in Conns :
             (hist'.reads[s].stale /\ ~hist.reads[s].stale)
             => /\ reqs[s] # Idle /\ reqs'[s] = reqs[s]
                /\ reqs[s].patch.on
                /\ DOMAIN reqs[s].result # {}
                /\ sent' # Idle
                /\ sent'.method \in WriteMethods
                /\ sent'.status \in SuccessStatus
                /\ cacheStore' = EmptyFn
       /\ \A key \in DOMAIN hist'.entries :
             hist'.entries[key].stale
             => IF StoredNow(key)
                THEN \E s \in Conns :
                        /\ reqs[s] # Idle /\ reqs'[s] = Idle
                        /\ reqs[s].patch.on /\ reqs[s].patch.key = key
                        /\ hist.reads[s].stale
                ELSE key \in DOMAIN hist.entries /\ hist.entries[key].stale]_vars

\* a list payload read before a write was answered, and stored after, is
\* served from the cache within its TTL when no request is in flight any
\* more; the collection would give another payload
C16_Witness ==
    /\ sent # Idle
    /\ sent.from = "cache"
    /\ sent.url \in ListUrls
    /\ "data" \in DOMAIN sent.resBody
    /\ ServedOrigin.stale
    /\ now < cacheStore[buildCacheKey(sent)].expiresAt
    /\ \A s \in Conns : reqs[s] = Idle
    /\ sent.resBody # getProductsRun(UrlQuery(sent.url), db)

-----------------------------------------------------------------------------
(* The resolvers applied to query mappings *)

MaxLen == 3

\* every string of at most n characters over the alphabet
StringsOver(alphabet, n) == UNION {[1..k -> alphabet] : k \in 0..n}

\* req.query with the parameters whose value is not None
Mapping(pairs) ==
    [name \in {n \in DOMAIN pairs : pairs[n] # Undefined} |-> pairs[name].s]

Optional(strings) == {Undefined} \cup {Str(x) : x \in strings}

PageInputs == Optional(StringsOver({"0", "1", "2", "-", " ", "a"}, MaxLen))
PageSamples == Optional({<<"2">>, <<"0">>, <<"1", "0", "0">>, <<"1", "0", "1">>})

PaginationQueries ==
    {Mapping([page |-> p, limit |-> l]) : p \in PageInputs, l \in PageSamples}
    \cup {Mapping([page |-> p, limit |-> l]) : p \in PageSamples, l \in PageInputs}

PriceInputs == Optional(StringsOver({"0", "5", "-", " ", "a"}, MaxLen))
PriceSamples == Optional({<<"5">>, <<"a">>, <<>>})

SpecExampleTags ==
    <<" ", "R", "e", "d", ",", " ", "B", "L", "U", "E", " ", ",",
      "b", "l", "u", "e">>

TagInputs ==
    Optional(StringsOver({"r", "R", ",", " "}, MaxLen) \cup {SpecExampleTags})

FilterQueries ==
    {Mapping([minPrice |-> a, maxPrice |-> b]) :
         a \in PriceInputs, b \in PriceSamples}
    \cup {Mapping([minPrice |-> a, maxPrice |-> b]) :
              a \in PriceSamples, b \in PriceInputs}
    \cup {Mapping([tags |-> t, category |-> c, search |-> x]) :
              t \in TagInputs,
              c \in Optional({<<"B", "e", "d">>}),
              x \in Optional({<<"r", "e", "d">>})}

\* sort tokens: the whitelisted fields and some others, with and without
\* '-' and white space around them
SortTokens ==
    {pre \o f \o suf :
        pre \in {<<>>, <<"-">>, <<"-", "-">>, <<" ">>, <<" ", "-">>, <<"-", " ">>},
        f \in allowed \cup {<<>>, <<"P", "r", "i", "c", "e">>,
                            <<"s", "t", "o", "c", "k">>},
        suf \in {<<>>, <<" ">>}}

SortQueries == {Mapping([sort |-> t]) : t \in Optional(SortTokens)}

\* a product of a sample collection
SampleDoc(id, active) ==
    [_id |-> id, slug |-> id, price |-> 10 * IdRank(id), isActive |-> active,
     createdAt |-> IdRank(id)]

\* the collections of at most three products, each active or not
Collections ==
    UNION {{[i \in ids |-> SampleDoc(i, i \in act)] : act \in SUBSET ids} :
               ids \in SUBSET SampleIds}

\* list requests with a numeric price range
ListQueries ==
    {Mapping([minPrice |-> Str(<<"0">>), maxPrice |-> m, page |-> p,
              limit |-> l, sort |-> s, isActive |-> a]) :
         m \in {Str(<<"5", "0">>), Str(<<"2", "0">>)},
         p \in Optional({<<"1">>, <<"2">>, <<"0">>}),
         l \in Optional({<<"1">>, <<"2">>, <<"1", "0", "1">>}),
         s \in Optional({<<"p", "r", "i", "c", "e">>,
                         <<"-", "p", "r", "i", "c", "e">>}),
         a \in Optional({<<"f", "a", "l", "s", "e">>})}

\* getProducts line 100
ParsePaginationCall ==
    /\ call = "none"
    /\ call' = "parsePagination"
    /\ out' = parsePagination(query)
    /\ UNCHANGED <<query, cacheVars>>

\* getProducts line 101
BuildProductFilterCall ==
    /\ call = "none"
    /\ call' = "buildProductFilter"
    /\ out' = buildProductFilter(query)
    /\ UNCHANGED <<query, cacheVars>>

\* getProducts line 102
ParseSortCall ==
    /\ call = "none"
    /\ call' = "parseSort"
    /\ out' = parseSort(Param(query, "sort"))
    /\ UNCHANGED <<query, cacheVars>>

\* the parameters whose predicate the storage model evaluates
Evaluated == {"page", "limit", "sort", "minPrice", "maxPrice", "isActive"}

\* getProducts lines 98-139, with no other request running
GetProductsCall ==
    /\ call = "none"
    /\ DOMAIN query \subseteq Evaluated
    /\ call' = "getProducts"
    /\ out' = getProductsRun(query, db)
    /\ UNCHANGED <<query, cacheVars>>

\* a request arrives with some query mapping; no resolver has run yet
InitResolvers ==
    /\ cacheStore = EmptyFn
    /\ now = 0
    /\ reqs = [s \in Conns |-> Idle]
    /\ sent = Idle
    /\ writes = 0
    /\ arrivals = 0
    /\ hist = NoHistory
    /\ call = "none"
    /\ out = EmptyFn
    /\ \/ /\ query \in PaginationQueries \cup FilterQueries \cup SortQueries
          /\ db = Seed
       \/ /\ query \in ListQueries
          /\ db \in Collections

NextResolvers ==
    \/ ParsePaginationCall
    \/ BuildProductFilterCall
    \/ ParseSortCall
    \/ GetProductsCall

SpecResolvers == InitResolvers /\ [][NextResolvers]_vars

-----------------------------------------------------------------------------
(* Properties of the resolvers *)

Supplied(name) == name \in DOMAIN query

\* the text is an optionally signed run of digits, white space around it aside
WellFormedNumber(s) ==
    LET t == Trim(s)
        u == IF t # <<>> /\ t[1] \in {"-", "+"} THEN SubSeq(t, 2, Len(t)) ELSE t
    IN  Len(u) > 0 /\ \A i \in 1..Len(u) : u[i] \in Digits

\* C7: with minPrice and maxPrice both absent the filter has no price entry,
\* and with exactly one of them supplied as a number the price predicate
\* carries that bound and nothing else.
C7_AbsentBoundsNoPredicate ==
    call = "buildProductFilter" =>
        /\ (~Supplied("minPrice") /\ ~Supplied("maxPrice"))
           => "price" \notin DOMAIN out
        /\ (Supplied("minPrice") /\ WellFormedNumber(query["minPrice"])
               /\ ~Supplied("maxPrice"))
           => "price" \in DOMAIN out /\ DOMAIN out["price"] = {"$gte"}
        /\ (Supplied("maxPrice") /\ WellFormedNumber(query["maxPrice"])
               /\ ~Supplied("minPrice"))
           => "price" \in DOMAIN out /\ DOMAIN out["price"] = {"$lte"}

BoundKey(name) == IF name = "minPrice" THEN "$gte" ELSE "$lte"

\* C8: a price bound that is supplied but is no number (text, the empty
\* string, white space) does not appear in the price predicate, while the
\* other bound, when it is a number, is applied with its value.
C8_MalformedBoundOmitted ==
    call = "buildProductFilter" =>
        \A name \in {"minPrice", "maxPrice"} :
            LET other == IF name = "minPrice" THEN "maxPrice" ELSE "minPrice"
            IN  (Supplied(name) /\ ~WellFormedNumber(query[name]))
                => /\ "price" \in DOMAIN out
                      => BoundKey(name) \notin DOMAIN out["price"]
                   /\ (Supplied(other) /\ WellFormedNumber(query[other]))
                      => /\ "price" \in DOMAIN out
                         /\ BoundKey(other) \in DOMAIN out["price"]
                         /\ out["price"][BoundKey(other)]
                                = ToNumber(Str(query[other]))

\* the tags a parameter names: its comma-separated entries, trimmed and
\* lower-cased, the empty ones left out
TagSet(s) ==
    LET parts == Split(s)
    IN  {ToLowerCase(Trim(parts[i])) : i \in 1..Len(parts)} \ {<<>>}

\* C9: the tags predicate lists exactly the set of trimmed, lower-cased,
\* non-empty entries, each once; with no entry left there is no tags entry.
C9_TagsAreDeduplicated ==
    (call = "buildProductFilter" /\ Supplied("tags")) =>
        IF TagSet(query["tags"]) = {}
        THEN "tags" \notin DOMAIN out
        ELSE /\ "tags" \in DOMAIN out
             /\ {out["tags"].in[i] : i \in 1..Len(out["tags"].in)}
                    = TagSet(query["tags"])
             /\ Len(out["tags"].in) = Cardinality(TagSet(query["tags"]))

\* the integer a text starts with, white space and one sign aside: the pair
\* <<TRUE, value>>, or <<FALSE, 0>> when the text starts with no integer
LeadingInteger(s) ==
    LET first == IF \E i \in 1..Len(s) : s[i] # " "
                 THEN CHOOSE i \in 1..Len(s) :
                          s[i] # " " /\ \A j \in 1..(i - 1) : s[j] = " "
                 ELSE Len(s) + 1
        signed == first <= Len(s) /\ s[first] \in {"-", "+"}
        from == IF signed THEN first + 1 ELSE first
        to == IF \E i \in from..Len(s) : s[i] \notin Digits
              THEN (CHOOSE i \in from..Len(s) :
                        s[i] \notin Digits
                        /\ \A j \in from..(i - 1) : s[j] \in Digits) - 1
              ELSE Len(s)
        pow[e \in 0..Len(s)] == IF e = 0 THEN 1 ELSE 10 * pow[e - 1]
        sum[i \in (from - 1)..to] ==
            IF i < from THEN 0 ELSE sum[i - 1] + DigitVal(s[i]) * pow[to - i]
    IN  IF to < from THEN <<FALSE, 0>>
        ELSE <<TRUE, IF signed /\ s[first] = "-" THEN 0 - sum[to] ELSE sum[to]>>

\* what the claim resolves the page input to
ResolvedPage ==
    IF ~Supplied("page") THEN 1
    ELSE LET n == LeadingInteger(query["page"])
         IN  IF ~n[1] \/ n[2] <= 0 THEN 1 ELSE n[2]

\* what the claim resolves the limit input to
ResolvedLimit ==
    IF ~Supplied("limit") THEN 20
    ELSE LET n == LeadingInteger(query["limit"])
         IN  IF ~n[1] \/ n[2] <= 0 \/ n[2] > 100 THEN 20 ELSE n[2]

C11_ResolvedPaginationEchoed ==
    /\ call = "parsePagination"
       => /\ out.page >= 1
          /\ out.limit >= 1 /\ out.limit <= 100
          /\ out.skip = (out.page - 1) * out.limit
          /\ out.skip >= 0
    /\ call = "getProducts"
       => /\ out.pagination.page = ResolvedPage
          /\ out.pagination.limit = ResolvedLimit
          /\ out.pagination.page >= 1
          /\ out.pagination.limit >= 1 /\ out.pagination.limit <= 100

\* a list request for page 0 with limit 101 was answered with page 1, limit 20
C11_Witness ==
    /\ call = "getProducts"
    /\ Supplied("page") /\ query["page"] = <<"0">>
    /\ Supplied("limit") /\ query["limit"] = <<"1", "0", "1">>
    /\ out.pagination.page = 1
    /\ out.pagination.limit = 20
    /\ out.pagination.total = 2

\* the sortable fields the claim names
Whitelist ==
    { <<"p", "r", "i", "c", "e">>, <<"c", "r", "e", "a", "t", "e", "d", "A", "t">>,
      <<"r", "a", "t", "i", "n", "g">>, <<"n", "a", "m", "e">> }

DefaultSort == <<"c", "r", "e", "a", "t", "e", "d", "A", "t">> :> -1

\* what the claim resolves a token to: one leading '-' is stripped and gives
\* the direction; a field outside the whitelist gives the default
ClaimedSort(t) ==
    LET descending == t # <<>> /\ t[1] = "-"
        field == IF descending THEN SubSeq(t, 2, Len(t)) ELSE t
    IN  IF field \in Whitelist
        THEN field :> (IF descending THEN -1 ELSE 1)
        ELSE DefaultSort

\* the sort token of the request; an absent token counts as the empty one
SortToken == IF Supplied("sort") THEN query["sort"] ELSE <<>>

\* C12 (as claimed): the sort is on a whitelisted field; a token whose field,
\* after stripping one leading '-', is whitelisted resolves to that field,
\* descending with '-' and ascending without; every other token resolves to
\* createdAt descending.
C12_TokenResolvesAsWritten ==
    call = "parseSort" =>
        /\ DOMAIN out \subseteq Whitelist
        /\ out = ClaimedSort(SortToken)

\* C12 (amended): the same, of the token with the white space around it
\* removed.
C12_TrimmedTokenResolves ==
    call = "parseSort" =>
        /\ DOMAIN out \subseteq Whitelist
        /\ Cardinality(DOMAIN out) = 1
        /\ out = ClaimedSort(Trim(SortToken))

\* '-price' resolved to price descending
C12_Witness ==
    /\ call = "parseSort"
    /\ Supplied("sort")
    /\ query["sort"] = <<"-", "p", "r", "i", "c", "e">>
    /\ out = (<<"p", "r", "i", "c", "e">> :> -1)

\* the least number of pages of the given size that hold total records
Ceil(total, size) ==
    CHOOSE n \in 0..total : n * size >= total /\ (n - 1) * size < total

\* C13: in the list envelope totalPages = ceil(total / limit) when total > 0
\* and totalPages = 1 when total = 0, limit being the resolved limit.
C13_TotalPagesIsCeiling ==
    call = "getProducts" =>
        LET pg == out.pagination
        IN  /\ pg.total = 0 => pg.totalPages = 1
            /\ pg.total > 0 => pg.totalPages = Ceil(pg.total, ResolvedLimit)

\* three records in pages of two: two pages
C13_Witness ==
    /\ call = "getProducts"
    /\ out.pagination.total = 3
    /\ out.pagination.limit = 2
    /\ out.pagination.totalPages = 2
    /\ Len(out.data) = 2

\* the products of the collection that are active
ActiveDocs == {db[i] : i \in {j \in DOMAIN db : db[j].isActive}}

\* C14: for every query mapping the filter asserts isActive = true, whatever
\* the query says, and the list response computed from the collection holds
\* and counts active products only.
C14_ActiveOnlyAlways ==
    /\ call = "buildProductFilter"
       => "isActive" \in DOMAIN out /\ out["isActive"] = TRUE
    /\ call = "getProducts"
       => /\ \A i \in 1..Len(out.data) : out.data[i] \in ActiveDocs
          /\ out.pagination.total <= Cardinality(ActiveDocs)

\* a list request with isActive=false was answered from a collection with an
\* inactive product in the price range: the product is neither listed nor
\* counted
C14_Witness ==
    /\ call = "getProducts"
    /\ Supplied("isActive")
    /\ query["maxPrice"] = <<"5", "0">>
    /\ ~Supplied("limit")
    /\ Cardinality(DOMAIN db) = 3
    /\ Cardinality(ActiveDocs) = 2
    /\ Len(out.data) = 2
    /\ out.pagination.total = 2

====
